---- MODULE Spec2Model ----
(***************************************************************************)
(* Session lifecycle of the gynecology intake interview                    *)
(* (src/app/core/gynecology_session.py) and its persistence.               *)
(*                                                                         *)
(* Texts are sequences of characters.  A Persian word of the configured    *)
(* keyword lists is written as one character of the model alphabet:        *)
(*   "tahavo" = the nausea keyword, "estefragh", "khastegi", "viar" = the  *)
(*   other required symptoms, "mah" = month, "do" = two, "se" = three.     *)
(* Digits, the blank and the sign are ordinary characters, so substring    *)
(* containment and int() parsing are computed character by character.      *)
(*                                                                         *)
(* Time passes between operations: the logical clock advances by one per   *)
(* operation, and all utcnow() readings of one operation return the same   *)
(* instant.                                                                *)
(***************************************************************************)
EXTENDS Integers, Sequences, FiniteSets, TLC

\* ------------------------------------------------------------------ bounds
MaxClock == 3

\* --------------------------------------------------------------- constants
MIN_GYNECOLOGY_AGE == 12
CurrentYear == 2026

\* ------------------------------------------------------------------- texts
SP == " "

REQUIRED_SYMPTOMS == << <<"tahavo">>, <<"estefragh">>, <<"khastegi">>, <<"viar">> >>

MONTH_WORDS == << <<"2", SP, "mah">>, <<"3", SP, "mah">>,
                  <<"se", SP, "mah">>, <<"do", SP, "mah">> >>

AGE_WARNING == <<"age_referral_warning">>

TextNausea   == <<"tahavo">>
TextMonths   == <<"2", SP, "mah">>
TextMinor    == <<SP, "2", "0", "1", "5">>
TextAdult    == <<"2", "0", "1", "4">>
TextBoth     == <<"tahavo", SP, "do", SP, "mah">>

Texts == {TextNausea, TextMonths, TextBoth, TextMinor, TextAdult}

KeyQ1       == <<"q", "1">>
KeyAge      == <<"a", "g", "e">>
KeyFreeText == <<"f", "r", "e", "e", "_", "t", "e", "x", "t">>
AGE_CHECKED == <<"_", "a", "g", "e", "_", "c", "h", "e", "c", "k", "e", "d">>

QuestionKeys == {KeyQ1, KeyAge, KeyFreeText}

DefaultModel == "gemma3-medical"
ModelNames == {"gyn-assistant"}

\* what the HTTP call to the generation backend ends in
BackendOutcomes == {[ok |-> TRUE,  content |-> <<"next_question">>],
                    [ok |-> FALSE, content |-> <<>>]}

\* Optional[str]
Absent     == [present |-> FALSE, text |-> <<>>]
Some(t)    == [present |-> TRUE, text |-> t]
Truthy(r)  == r.present /\ r.text # <<>>

\* ------------------------------------------------------- string functions
Contains(text, word) ==
    \E i \in 1..(Len(text) - Len(word) + 1) :
        SubSeq(text, i, i + Len(word) - 1) = word

AnyIn(words, text) == \E i \in 1..Len(words) : Contains(text, words[i])

RECURSIVE Join(_)
Join(parts) ==
    IF parts = <<>> THEN <<>>
    ELSE IF Len(parts) = 1 THEN parts[1]
    ELSE parts[1] \o <<SP>> \o Join(Tail(parts))

\* str.lower(): "Q" is the only upper-case character of the model alphabet
Lower(text) == [i \in 1..Len(text) |-> IF text[i] = "Q" THEN "q" ELSE text[i]]

StartsWith(text, prefix) ==
    Len(text) >= Len(prefix) /\ SubSeq(text, 1, Len(prefix)) = prefix

RECURSIVE LStrip(_)
LStrip(text) ==
    IF text # <<>> /\ Head(text) = SP THEN LStrip(Tail(text)) ELSE text

RECURSIVE RStrip(_)
RStrip(text) ==
    IF text # <<>> /\ text[Len(text)] = SP
    THEN RStrip(SubSeq(text, 1, Len(text) - 1)) ELSE text

Strip(text) == RStrip(LStrip(text))

Digits == <<"0", "1", "2", "3", "4", "5", "6", "7", "8", "9">>

IsDigit(c) == \E n \in 1..10 : Digits[n] = c

DigitValue(c) == (CHOOSE n \in 1..10 : Digits[n] = c) - 1

RECURSIVE DigitsValue(_)
DigitsValue(ds) ==
    IF ds = <<>> THEN 0
    ELSE 10 * DigitsValue(SubSeq(ds, 1, Len(ds) - 1)) + DigitValue(ds[Len(ds)])

\* int(answer.strip()): optional sign, then one or more digits; anything
\* else raises ValueError (ok = FALSE)
ParseInt(text) ==
    LET s      == Strip(text)
        signed == s # <<>> /\ Head(s) \in {"+", "-"}
        ds     == IF signed THEN Tail(s) ELSE s
        ok     == ds # <<>> /\ \A i \in 1..Len(ds) : IsDigit(ds[i])
    IN  IF ~ok THEN [ok |-> FALSE, value |-> 0]
        ELSE [ok |-> TRUE,
              value |-> IF signed /\ Head(s) = "-" THEN 0 - DigitsValue(ds)
                        ELSE DigitsValue(ds)]

\* ------------------------------------------------------------ answer store
\* patient_answers is a Python dict: unique keys, insertion order kept.  An
\* entry is {"answer", "timestamp"} (isdict) or the bare flag value True.
AnswerRecord(key, answer, t) ==
    [key |-> key, isdict |-> TRUE, answer |-> answer, timestamp |-> t]

FlagEntry == [key |-> AGE_CHECKED, isdict |-> FALSE, answer |-> <<>>, timestamp |-> 0]

HasKey(answers, key) == \E i \in 1..Len(answers) : answers[i].key = key

\* answers[key] = entry
DictSet(answers, entry) ==
    IF HasKey(answers, entry.key)
    THEN [i \in 1..Len(answers) |->
            IF answers[i].key = entry.key THEN entry ELSE answers[i]]
    ELSE Append(answers, entry)

\* truth value of answers.get(key): the flag True and a non-empty dict are
\* both truthy, a missing key gives None
GetTruthy(answers, key) == HasKey(answers, key)

IsDictEntry(e) == e.isdict

AnswersText(answers) ==
    LET dicts == SelectSeq(answers, IsDictEntry)
    IN  Join([i \in 1..Len(dicts) |-> dicts[i].answer])

\* -------------------------------------------------------------- rule engine
\* variant: the flag is assigned the verdict of the current pass
DetectPregnancyAssigned(answers, suspicion) ==
    LET answers_text == AnswersText(answers)
    IN  AnyIn(REQUIRED_SYMPTOMS, answers_text) /\ AnyIn(MONTH_WORDS, answers_text)

\* variant: a symptom word or a months phrase alone raises the flag
DetectPregnancyEither(answers, suspicion) ==
    LET answers_text   == AnswersText(answers)
        symptoms_found == AnyIn(REQUIRED_SYMPTOMS, answers_text)
        months_found   == AnyIn(MONTH_WORDS, answers_text)
    IN  IF symptoms_found \/ months_found THEN TRUE ELSE suspicion

\* _detect_pregnancy: the flag is only ever raised
DetectPregnancy(answers, suspicion) ==
    LET answers_text   == AnswersText(answers)
        symptoms_found == AnyIn(REQUIRED_SYMPTOMS, answers_text)
        months_found   == AnyIn(MONTH_WORDS, answers_text)
    IN  IF symptoms_found /\ months_found THEN TRUE ELSE suspicion

\* variant: the comparison with the minimum age is not strict
ValidateAgeInclusive(answer) ==
    LET year == ParseInt(answer)
    IN  year.ok /\ CurrentYear - year.value <= MIN_GYNECOLOGY_AGE

\* _validate_age: TRUE when the gate fires (status set to SUSPENDED and the
\* warning returned)
ValidateAge(answer) ==
    LET year == ParseInt(answer)
    IN  year.ok /\ CurrentYear - year.value < MIN_GYNECOLOGY_AGE

\* the guard of the one-time age check in submit_answer
AgeCheckDue(question_key, answers) ==
    StartsWith(Lower(question_key), <<"q">>) /\ ~GetTruthy(answers, AGE_CHECKED)

\* variant: the flag is never written
MarkAgeCheckedSkipped(answers) == answers

\* patient_answers["_age_checked"] = True
MarkAgeChecked(answers) == DictSet(answers, FlagEntry)

\* ---------------------------------------------------------- backend client
\* _call_ollama: a transport failure returns None; on success the content is
\* read into assistant_message and the function ends without a return
\* statement, so the caller receives None as well
CallOllama(outcome) == Absent

\* ------------------------------------------------------------------ turns
Message(role, content, t) == [role |-> role, content |-> content, timestamp |-> t]

AddMessage(history, role, content, t) == Append(history, Message(role, content, t))

\* the instruction submit_answer passes to _call_ollama as user_message
NEXT_QUESTION_REQUEST == <<"next_question_request">>

\* _call_ollama: the messages of the request, the log's turns by role and
\* content, then user_message if it is not empty
OllamaMessages(history, user_message) ==
    [i \in 1..Len(history) |->
        [role |-> history[i].role, content |-> history[i].content]]
    \o (IF user_message # <<>>
        THEN <<[role |-> "user", content |-> user_message]>>
        ELSE <<>>)

\* variant: the patient's text is logged before the gate's warning
SubmitLogWithPatientTurn(history, fired, answer, next_question, t) ==
    LET withUser == AddMessage(history, "user", answer, t)
    IN  IF fired THEN AddMessage(withUser, "assistant", AGE_WARNING, t)
        ELSE IF Truthy(next_question)
             THEN AddMessage(withUser, "assistant", next_question.text, t)
             ELSE withUser

\* the log after an accepted submit_answer
SubmitLog(history, fired, answer, next_question, t) ==
    IF fired THEN AddMessage(history, "assistant", AGE_WARNING, t)
    ELSE LET withUser == AddMessage(history, "user", answer, t)
         IN  IF Truthy(next_question)
             THEN AddMessage(withUser, "assistant", next_question.text, t)
             ELSE withUser

\* variant: only a completed session is refused
IsActiveUnlessCompleted(st) == st # "COMPLETED"

\* the guard at the head of submit_answer
IsActive(st) == st = "ACTIVE"

\* ------------------------------------------------------------- persistence
\* SessionStatus.value
StatusValue(st) ==
    CASE st = "ACTIVE"    -> "active"
      [] st = "COMPLETED" -> "completed"
      [] st = "SUSPENDED" -> "suspended"

\* variant: an unrecognized value falls back to ACTIVE
SessionStatusOfDefaulting(value) ==
    CASE value = "completed" -> [ok |-> TRUE, status |-> "COMPLETED"]
      [] value = "suspended" -> [ok |-> TRUE, status |-> "SUSPENDED"]
      [] OTHER               -> [ok |-> TRUE, status |-> "ACTIVE"]

\* SessionStatus(value): a value that names no member raises ValueError
SessionStatusOf(value) ==
    CASE value = "active"    -> [ok |-> TRUE,  status |-> "ACTIVE"]
      [] value = "completed" -> [ok |-> TRUE,  status |-> "COMPLETED"]
      [] value = "suspended" -> [ok |-> TRUE,  status |-> "SUSPENDED"]
      [] OTHER               -> [ok |-> FALSE, status |-> "ACTIVE"]

\* status values a stored record may carry that name no SessionStatus
ForeignStatusValues == {"archived", "ACTIVE"}

\* ------------------------------------------------------------------- state
VARIABLES
    session_id,            \* GynecologySession fields
    status,
    patient_answers,
    conversation_history,
    pregnancy_suspicion,
    model_name,
    metadata,
    created_at,
    updated_at,
    clock,                 \* the instant utcnow() last returned
    disk,                  \* the session file: <<>> or <<document>>
    last_op,               \* the operation performed last
    reply,                 \* what it returned
    error,                 \* the exception it raised, "none" if it returned
    backend_calls,         \* requests it sent to the backend
    age_evaluated,         \* whether it ran _validate_age
    request,               \* the messages a submit_answer sent: <<>> if none
    pregnancy,             \* the PregnancySession object: <<>> or <<session>>
    pregnancy_files,       \* the saved pregnancy reports, by session id
    truncated              \* the session file is open for writing, still empty

session == <<session_id, status, patient_answers, conversation_history,
             pregnancy_suspicion, model_name, metadata, created_at, updated_at>>

outcome == <<last_op, reply, error, backend_calls, age_evaluated, request>>

vars == <<session_id, status, patient_answers, conversation_history,
          pregnancy_suspicion, model_name, metadata, created_at, updated_at,
          clock, disk, last_op, reply, error, backend_calls, age_evaluated,
          request,
          pregnancy, pregnancy_files, truncated>>

\* what the operations of GynecologySession never touch
beyond == <<pregnancy, pregnancy_files, truncated>>

\* the GynecologySession object as one value
Current ==
    [session_id           |-> session_id,
     status               |-> status,
     patient_answers      |-> patient_answers,
     conversation_history |-> conversation_history,
     pregnancy_suspicion  |-> pregnancy_suspicion,
     model_name           |-> model_name,
     metadata             |-> metadata,
     created_at           |-> created_at,
     updated_at           |-> updated_at]

\* the object the caller holds is s
Holding(s) ==
    /\ session_id = s.session_id
    /\ status = s.status
    /\ patient_answers = s.patient_answers
    /\ conversation_history = s.conversation_history
    /\ pregnancy_suspicion = s.pregnancy_suspicion
    /\ model_name = s.model_name
    /\ metadata = s.metadata
    /\ created_at = s.created_at
    /\ updated_at = s.updated_at

\* the object the caller holds next is s
Becomes(s) ==
    /\ session_id' = s.session_id
    /\ status' = s.status
    /\ patient_answers' = s.patient_answers
    /\ conversation_history' = s.conversation_history
    /\ pregnancy_suspicion' = s.pregnancy_suspicion
    /\ model_name' = s.model_name
    /\ metadata' = s.metadata
    /\ created_at' = s.created_at
    /\ updated_at' = s.updated_at

\* an operation other than submit_answer has returned normally
Returned(op, calls) ==
    /\ last_op' = op
    /\ reply' = Absent
    /\ error' = "none"
    /\ backend_calls' = calls
    /\ age_evaluated' = FALSE
    /\ request' = <<>>

\* _initialize_conversation: the opening turn, if the backend call gave one
InitializeConversation(opening, t) ==
    IF Truthy(opening) THEN AddMessage(<<>>, "assistant", opening.text, t) ELSE <<>>

\* GynecologySession("patient_1")
Init ==
    \E m \in {DefaultModel}, b \in BackendOutcomes :
        /\ session_id = <<"patient_1">>
        /\ status = "ACTIVE"
        /\ patient_answers = <<>>
        /\ conversation_history = InitializeConversation(CallOllama(b), 0)
        /\ pregnancy_suspicion = FALSE
        /\ model_name = m
        /\ metadata = [model |-> m, model_switched_at |-> <<>>]
        /\ created_at = 0
        /\ updated_at = 0
        /\ clock = 0
        /\ disk = <<>>
        /\ last_op = "create"
        /\ reply = Absent
        /\ error = "none"
        /\ backend_calls = 1
        /\ age_evaluated = FALSE
        /\ request = <<>>
        /\ pregnancy = <<>>
        /\ pregnancy_files = <<>>
        /\ truncated = FALSE

\* ---------------------------------------------------------------- actions
\* submit_answer on a session that is not active: ValueError, nothing else
SubmitRejected(question_key, answer) ==
    /\ ~IsActive(status)
    /\ clock < MaxClock
    /\ clock' = clock + 1
    /\ last_op' = "submit_answer"
    /\ reply' = Absent
    /\ error' = "ValueError"
    /\ backend_calls' = 0
    /\ age_evaluated' = FALSE
    /\ request' = <<>>
    /\ UNCHANGED <<session, disk, beyond>>

\* submit_answer on the active session s at the instant now: the session it
\* leaves, what it returns, the backend requests it sent and whether it ran
\* the age rule
SubmitResult(s, question_key, answer, b, now) ==
    LET detected == DetectPregnancy(s.patient_answers, s.pregnancy_suspicion)
        stored   == DictSet(s.patient_answers, AnswerRecord(question_key, answer, now))
        due      == AgeCheckDue(question_key, stored)
        fired    == due /\ ValidateAge(answer)
        next_question == IF fired THEN Absent ELSE CallOllama(b)
    IN  [session |-> [s EXCEPT
             !.pregnancy_suspicion = detected,
             !.patient_answers = IF due THEN MarkAgeChecked(stored) ELSE stored,
             !.status = IF fired THEN "SUSPENDED" ELSE s.status,
             !.conversation_history =
                 SubmitLog(s.conversation_history, fired, answer, next_question, now),
             !.updated_at = now],
         reply |-> IF fired THEN Some(AGE_WARNING) ELSE next_question,
         backend_calls |-> IF fired THEN 0 ELSE 1,
         age_evaluated |-> due,
         request |-> IF fired THEN <<>>
                     ELSE OllamaMessages(
                              AddMessage(s.conversation_history, "user", answer, now),
                              NEXT_QUESTION_REQUEST)]

\* submit_answer on an active session
SubmitAccepted(question_key, answer, b) ==
    /\ IsActive(status)
    /\ clock < MaxClock
    /\ LET r == SubmitResult(Current, question_key, answer, b, clock + 1)
       IN  /\ clock' = clock + 1
           /\ Becomes(r.session)
           /\ reply' = r.reply
           /\ backend_calls' = r.backend_calls
           /\ age_evaluated' = r.age_evaluated
           /\ request' = r.request
    /\ last_op' = "submit_answer"
    /\ error' = "none"
    /\ UNCHANGED <<disk, beyond>>

SubmitAnswer ==
    \E question_key \in QuestionKeys, answer \in Texts :
        \/ SubmitRejected(question_key, answer)
        \/ \E b \in BackendOutcomes : SubmitAccepted(question_key, answer, b)

CompleteSession ==
    /\ clock < MaxClock
    /\ clock' = clock + 1
    /\ status' = "COMPLETED"
    /\ updated_at' = clock + 1
    /\ Returned("complete_session", 0)
    /\ UNCHANGED <<session_id, patient_answers, conversation_history,
                   pregnancy_suspicion, model_name, metadata, created_at, disk,
                   beyond>>

SuspendSession ==
    /\ clock < MaxClock
    /\ clock' = clock + 1
    /\ status' = "SUSPENDED"
    /\ updated_at' = clock + 1
    /\ Returned("suspend_session", 0)
    /\ UNCHANGED <<session_id, patient_answers, conversation_history,
                   pregnancy_suspicion, model_name, metadata, created_at, disk,
                   beyond>>

SwitchModel ==
    \E new_model_name \in ModelNames :
        /\ clock < MaxClock
        /\ clock' = clock + 1
        /\ model_name' = new_model_name
        /\ metadata' = [model |-> new_model_name, model_switched_at |-> <<clock + 1>>]
        /\ updated_at' = clock + 1
        /\ Returned("switch_model", 0)
        /\ UNCHANGED <<session_id, status, patient_answers, conversation_history,
                       pregnancy_suspicion, created_at, disk, beyond>>

\* variant: the document is stamped with the last update as its creation
SessionDocumentRestamped(s) ==
    [session_id           |-> s.session_id,
     status               |-> StatusValue(s.status),
     patient_answers      |-> s.patient_answers,
     conversation_history |-> s.conversation_history,
     pregnancy_suspicion  |-> s.pregnancy_suspicion,
     metadata             |-> s.metadata,
     created_at           |-> s.updated_at,
     updated_at           |-> s.updated_at]

\* to_json of the session s: the document written to the session file
SessionDocument(s) ==
    [session_id           |-> s.session_id,
     status               |-> StatusValue(s.status),
     patient_answers      |-> s.patient_answers,
     conversation_history |-> s.conversation_history,
     pregnancy_suspicion  |-> s.pregnancy_suspicion,
     metadata             |-> s.metadata,
     created_at           |-> s.created_at,
     updated_at           |-> s.updated_at]

ToJson == SessionDocument(Current)

SaveToFile ==
    /\ clock < MaxClock
    /\ clock' = clock + 1
    /\ disk' = <<ToJson>>
    /\ Returned("save_to_file", 0)
    /\ UNCHANGED <<session, beyond>>

\* an operation other than submit_answer has raised exc
Raised(op, exc, calls) ==
    /\ last_op' = op
    /\ reply' = Absent
    /\ error' = exc
    /\ backend_calls' = calls
    /\ age_evaluated' = FALSE
    /\ request' = <<>>

\* a stored document without one of its keys
Without(data, key) == [k \in DOMAIN data \ {key} |-> data[k]]

\* the keys from_dict reads before it constructs the session, and after
ConstructorKeys == {"session_id", "metadata"}
RestoredKeys == {"status", "patient_answers", "pregnancy_suspicion", "metadata",
                 "created_at", "updated_at"}

\* GynecologySession(session_id, model_name=...) at the instant now
NewSession(id, model, b, now) ==
    [session_id           |-> id,
     status               |-> "ACTIVE",
     patient_answers      |-> <<>>,
     conversation_history |-> InitializeConversation(CallOllama(b), now),
     pregnancy_suspicion  |-> FALSE,
     model_name           |-> model,
     metadata             |-> [model |-> model, model_switched_at |-> <<>>],
     created_at           |-> now,
     updated_at           |-> now]

\* from_dict: a new session is constructed (with its opening backend call)
\* and the stored fields are then assigned over it; the assignment of
\* conversation_history is commented out, so the log stays the one the
\* constructor made.  Every key is read with data[key]: a missing one raises
\* KeyError.  An unrecognized status raises ValueError.  When it raises no
\* session is returned.
FromDictResult(data, b, now) ==
    IF ~(ConstructorKeys \subseteq DOMAIN data) \/ "model" \notin DOMAIN data.metadata
    THEN [error |-> "KeyError", backend_calls |-> 0, loaded |-> <<>>]
    ELSE IF "status" \notin DOMAIN data
    THEN [error |-> "KeyError", backend_calls |-> 1, loaded |-> <<>>]
    ELSE IF ~SessionStatusOf(data.status).ok
    THEN [error |-> "ValueError", backend_calls |-> 1, loaded |-> <<>>]
    ELSE IF ~(RestoredKeys \subseteq DOMAIN data)
    THEN [error |-> "KeyError", backend_calls |-> 1, loaded |-> <<>>]
    ELSE [error |-> "none", backend_calls |-> 1,
          loaded |-> << [NewSession(data.session_id, data.metadata.model, b, now) EXCEPT
                           !.status = SessionStatusOf(data.status).status,
                           !.patient_answers = data.patient_answers,
                           !.pregnancy_suspicion = data.pregnancy_suspicion,
                           !.metadata = data.metadata,
                           !.created_at = data.created_at,
                           !.updated_at = data.updated_at] >>]

\* from_dict called by the holder of the session object: when it raises, the
\* caller keeps what it had
FromDict(data, op, b) ==
    LET r == FromDictResult(data, b, clock + 1)
    IN  /\ clock' = clock + 1
        /\ UNCHANGED <<disk, beyond>>
        /\ IF r.error # "none"
           THEN Raised(op, r.error, r.backend_calls) /\ UNCHANGED session
           ELSE Becomes(r.loaded[1]) /\ Returned(op, r.backend_calls)

\* load_from_file on the session file
LoadFromFile ==
    /\ clock < MaxClock
    /\ disk # <<>>
    /\ \E b \in BackendOutcomes : FromDict(disk[1], "load_from_file", b)

\* from_dict on a document whose status names no SessionStatus member
LoadForeignRecord ==
    /\ clock < MaxClock
    /\ disk # <<>>
    /\ \E value \in ForeignStatusValues, b \in BackendOutcomes :
          FromDict([disk[1] EXCEPT !.status = value], "from_dict", b)

IsAssistantTurn(msg) == msg.role = "assistant"

\* variant: the content of the last turn is returned, whatever its role
GetCurrentQuestionLastTurn(history) ==
    IF history = <<>> THEN Absent ELSE Some(history[Len(history)].content)

\* get_current_question: the log is scanned from its end for an assistant turn
GetCurrentQuestion(history) ==
    LET turns == SelectSeq(history, IsAssistantTurn)
    IN  IF turns = <<>> THEN Absent ELSE Some(turns[Len(turns)].content)

\* the holder of the session asks for the current question
AskCurrentQuestion ==
    /\ clock < MaxClock
    /\ clock' = clock + 1
    /\ last_op' = "get_current_question"
    /\ reply' = GetCurrentQuestion(conversation_history)
    /\ error' = "none"
    /\ backend_calls' = 0
    /\ age_evaluated' = FALSE
    /\ request' = <<>>
    /\ UNCHANGED <<session, disk, beyond>>

\* keys of a stored document that the format treats as optional
OptionalKeys == {"patient_answers", "conversation_history", "pregnancy_suspicion",
                 "metadata"}

\* load_from_file on a session file that lacks one optional key
LoadPartialRecord ==
    /\ clock < MaxClock
    /\ disk # <<>>
    /\ \E key \in OptionalKeys, b \in BackendOutcomes :
          FromDict(Without(disk[1], key), "load_partial", b)

Next ==
    \/ SubmitAnswer
    \/ CompleteSession
    \/ SuspendSession
    \/ SwitchModel
    \/ SaveToFile
    \/ LoadFromFile
    \/ LoadForeignRecord
    \/ LoadPartialRecord
    \/ AskCurrentQuestion

Spec == Init /\ [][Next]_vars

\* ------------------------------------------------- the pregnancy session
\* (src/app/core/pregnancy_session.py)  Keyword words, one character each:
\*   "ghaedegi" = the menstruation word that marks the LMP answer;
\*   "tahavo", "halat", "pestan", "khastegi", "takhir" = the symptom words of
\*   the import; "taeid", "mosbat" / "azmayesh", "beta" / "manfi", "rad" =
\*   the Persian words of the status detection.
LMP_KEY == <<"l", "m", "p">>
LMP_WORD == <<"ghaedegi">>

PREGNANCY_SYMPTOMS == << <<"tahavo">>, <<"halat">>, <<"pestan">>, <<"khastegi">>,
                         <<"takhir">> >>

CONFIRMED_WORDS == << <<"taeid">>, <<"c", "o", "n", "f", "i", "r", "m", "e", "d">>,
                      <<"mosbat">> >>
TESTING_WORDS   == << <<"azmayesh">>, <<"t", "e", "s", "t">>, <<"beta">> >>
NEGATIVE_WORDS  == << <<"manfi">>, <<"n", "e", "g", "a", "t", "i", "v", "e">>,
                      <<"rad">> >>

PREGNANCY_MODEL == "deepseek-r1:1.5b"
SUMMARY_HEADER == <<"gynecology_summary:", "\n">>
PATIENT_PREFIX == <<"- patient: ">>
START_ERROR == <<"first_question_error">>
SummaryTextLimit == 100
SummaryTurnLimit == 10

Min(a, b) == IF a < b THEN a ELSE b

\* text[:n]
Take(text, n) == SubSeq(text, 1, Min(n, Len(text)))

\* "\n".join(parts)
RECURSIVE JoinLines(_)
JoinLines(parts) ==
    IF parts = <<>> THEN <<>>
    ELSE IF Len(parts) = 1 THEN parts[1]
    ELSE parts[1] \o <<"\n">> \o JoinLines(Tail(parts))

\* the text the import reads out of one entry of the answer store:
\* value.get("answer", "") for a record, str(value) for anything else
AnswerText(entry) == IF entry.isdict THEN entry.answer ELSE <<"T", "r", "u", "e">>

CarriesLmpMarker(entry) ==
    Contains(Lower(entry.key), LMP_KEY) \/ Contains(AnswerText(entry), LMP_WORD)

CarriesSymptom(entry) == AnyIn(PREGNANCY_SYMPTOMS, AnswerText(entry))

\* pregnancy_data.lmp after the loop: every marked entry assigns it, so the
\* last one stays
ImportedLmp(answers) ==
    LET marked == SelectSeq(answers, CarriesLmpMarker)
    IN  IF marked = <<>> THEN Absent ELSE Some(AnswerText(marked[Len(marked)]))

\* variant: an answer text already collected is not collected again
ImportedSymptomsDistinct(answers) ==
    LET hits == SelectSeq(answers, CarriesSymptom)
        first(i) == \A j \in 1..(i - 1) : AnswerText(hits[j]) # AnswerText(hits[i])
        kept == {i \in 1..Len(hits) : first(i)}
        nth(k) == CHOOSE i \in kept : Cardinality({j \in kept : j <= i}) = k
    IN  [k \in 1..Cardinality(kept) |-> AnswerText(hits[nth(k)])]

\* pregnancy_data.symptoms after the loop
ImportedSymptoms(answers) ==
    LET hits == SelectSeq(answers, CarriesSymptom)
    IN  [i \in 1..Len(hits) |-> AnswerText(hits[i])]

IsPatientTurn(msg) == msg.role = "user" /\ msg.content # <<>>

\* variant: every patient turn is summarized
SummarizeGynecologyHistoryUnbounded(history) ==
    LET turns == SelectSeq(history, IsPatientTurn)
        summary_parts == [i \in 1..Len(turns) |->
                             PATIENT_PREFIX \o Take(turns[i].content, SummaryTextLimit)]
    IN  JoinLines(summary_parts)

\* _summarize_gynecology_history
SummarizeGynecologyHistory(history) ==
    LET turns == SelectSeq(history, IsPatientTurn)
        summary_parts == [i \in 1..Len(turns) |->
                             PATIENT_PREFIX \o Take(turns[i].content, SummaryTextLimit)]
    IN  JoinLines(Take(summary_parts, SummaryTurnLimit))

\* variant: the new id is the source id itself
PregnancySessionIdUnprefixed(gyn_data) == gyn_data.session_id

\* from_gynecology_session: f"pregnancy_{gyn_data['session_id']}"
PregnancySessionId(gyn_data) == <<"pregnancy_">> \o gyn_data.session_id

\* PregnancySession(session_id, gynecology_session_data=gyn_data) at the
\* instant now, _import_from_gynecology included
NewPregnancySession(id, gyn_data, now) ==
    [session_id           |-> id,
     status               |-> "SUSPECTED",
     pregnancy_data       |-> [lmp      |-> ImportedLmp(gyn_data.patient_answers),
                               symptoms |-> ImportedSymptoms(gyn_data.patient_answers)],
     conversation_history |->
         << Message("system",
                    SUMMARY_HEADER \o SummarizeGynecologyHistory(gyn_data.conversation_history),
                    now) >>,
     metadata             |-> [model             |-> PREGNANCY_MODEL,
                               transferred_from  |-> "gynecology_session",
                               source_session_id |-> gyn_data.session_id],
     created_at           |-> now,
     updated_at           |-> now]

\* variant: a negation word is looked for first
DetectPregnancyStatusNegationFirst(message, st) ==
    LET message_lower == Lower(message)
    IN  IF AnyIn(NEGATIVE_WORDS, message_lower) THEN "RULED_OUT"
        ELSE IF AnyIn(CONFIRMED_WORDS, message_lower) THEN "CONFIRMED"
        ELSE IF AnyIn(TESTING_WORDS, message_lower) THEN "NEEDS_TESTING"
        ELSE st

\* _detect_pregnancy_status: the status after the reply was read
DetectPregnancyStatus(message, st) ==
    LET message_lower == Lower(message)
    IN  IF AnyIn(CONFIRMED_WORDS, message_lower) THEN "CONFIRMED"
        ELSE IF AnyIn(TESTING_WORDS, message_lower) THEN "NEEDS_TESTING"
        ELSE IF AnyIn(NEGATIVE_WORDS, message_lower) THEN "RULED_OUT"
        ELSE st

\* variant: a transport failure is read as a negative reply
CallPregnancyModelFailureClassified(p, b) ==
    IF b.ok
    THEN [reply |-> Some(b.content), status |-> DetectPregnancyStatus(b.content, p.status)]
    ELSE [reply |-> Absent, status |-> "RULED_OUT"]

\* _call_pregnancy_model on the session p: a transport failure returns None
\* and leaves the status; on success the reply is classified and returned
CallPregnancyModel(p, b) ==
    IF b.ok
    THEN [reply |-> Some(b.content), status |-> DetectPregnancyStatus(b.content, p.status)]
    ELSE [reply |-> Absent, status |-> p.status]

\* PregnancyStatus.value
PregnancyStatusValue(st) ==
    CASE st = "SUSPECTED"     -> "suspected"
      [] st = "CONFIRMED"     -> "confirmed"
      [] st = "RULED_OUT"     -> "ruled_out"
      [] st = "NEEDS_TESTING" -> "needs_testing"

\* start_pregnancy_consultation on p: the model is asked every time
StartResult(p, b, now) ==
    LET call == CallPregnancyModel(p, b)
        first_question == call.reply
    IN  [session |-> [p EXCEPT
             !.status = call.status,
             !.conversation_history =
                 IF Truthy(first_question)
                 THEN AddMessage(@, "assistant", first_question.text, now) ELSE @],
         reply |-> IF Truthy(first_question) THEN first_question ELSE Some(START_ERROR)]

\* self.system_prompt of a pregnancy session
PREGNANCY_SYSTEM_PROMPT == <<"pregnancy_system_prompt">>

\* _call_pregnancy_model: the messages of the request, the system prompt,
\* the log's turns as they are, then user_message if it is not empty
PregnancyMessages(history, user_message) ==
    <<[role |-> "system", content |-> PREGNANCY_SYSTEM_PROMPT]>>
    \o history
    \o (IF user_message # <<>>
        THEN <<[role |-> "user", content |-> user_message]>>
        ELSE <<>>)

\* PregnancySession.submit_answer on p: no guard on the status
PregnancySubmitResult(p, answer, b, now) ==
    LET withUser == AddMessage(p.conversation_history, "user", answer, now)
        call == CallPregnancyModel([p EXCEPT !.conversation_history = withUser], b)
        next_question == call.reply
    IN  [session |-> [p EXCEPT
             !.status = call.status,
             !.conversation_history =
                 IF Truthy(next_question)
                 THEN AddMessage(withUser, "assistant", next_question.text, now)
                 ELSE withUser,
             !.updated_at = now],
         reply |-> next_question,
         request |-> PregnancyMessages(withUser, answer)]

\* generate_pregnancy_report on p: the model is asked for a summary, which
\* classifies the status again, and the report is built after that
ReportResult(p, b) ==
    LET call == CallPregnancyModel(p, b)
        final_summary == call.reply
    IN  [session |-> [p EXCEPT !.status = call.status],
         report  |-> [session_id           |-> p.session_id,
                      status               |-> PregnancyStatusValue(call.status),
                      pregnancy_data       |-> p.pregnancy_data,
                      final_summary        |-> final_summary,
                      conversation_history |-> p.conversation_history,
                      metadata             |-> p.metadata,
                      created_at           |-> p.created_at,
                      updated_at           |-> p.updated_at]]

\* the report files after one is written under the name id
WriteReport(files, id, report) ==
    [n \in DOMAIN files \cup {id} |-> IF n = id THEN report ELSE files[n]]

\* save_to_file(f"{id}.json"): session files and report files lie in one
\* directory, so a report named like the stored intake session replaces it
StoreReport(id, report) ==
    IF id = <<"patient_1">>
    THEN disk' = <<report>> /\ UNCHANGED pregnancy_files
    ELSE pregnancy_files' = WriteReport(pregnancy_files, id, report) /\ UNCHANGED disk

\* os.path.exists for a report file
ReportExists(id) == id \in DOMAIN pregnancy_files

\* ------------------------------------------- the service and the transfer
\* (src/app/api/routes.py)  The intake session of patient_1 has been
\* interviewed and saved before the service is called; the instants of that
\* interview lie before 0.  Every route is one operation: no two requests
\* overlap here.  A route works on objects of its own, which are gone when it
\* ends: it changes the files only.  The session variables and pregnancy are
\* the objects a script holds (src/main.py, src/transfer_to_pregnancy.py).
StoredId == <<"patient_1">>
SessionIds == {StoredId, <<"patient_2">>}
PregnancyIds == {<<"pregnancy_">> \o id : id \in SessionIds}

TextFatigue       == <<"khastegi">>
TextPlain         == <<"sardard">>
TextDelayedPeriod == <<"takhir", SP, "ghaedegi">>
KeyLmp == LMP_KEY

Asked(key, answer) == [key |-> key, answer |-> answer]

\* an answer one character longer than the summary keeps of it
TextLong == [i \in 1..(SummaryTextLimit + 1) |-> "x"]

\* one more answer than the summary takes, each with a text of its own
ManyAnswers ==
    [i \in 1..(SummaryTurnLimit + 1) |->
        Asked(KeyFreeText, <<"sardard", SP,
                             <<"a", "b", "c", "d", "e", "f", "g", "h", "i", "j", "k">>[i]>>)]

\* the interviews held before the service is called
Interviews ==
    { <<>>,
      << Asked(KeyLmp, TextPlain), Asked(KeyQ1, TextNausea), Asked(KeyFreeText, TextFatigue) >>,
      << Asked(KeyQ1, TextNausea), Asked(KeyFreeText, TextNausea) >>,
      << Asked(KeyFreeText, TextDelayedPeriod) >>,
      << Asked(KeyFreeText, TextBoth), Asked(KeyQ1, TextAdult) >>,
      << Asked(KeyLmp, TextMonths), Asked(KeyFreeText, TextDelayedPeriod) >>,
      << Asked(KeyFreeText, <<>>), Asked(KeyAge, TextLong) >>,
      ManyAnswers }

Messages == {TextNausea, TextMonths}
PregnancyAnswers == {TextPlain}

ReplyAllWords    == <<"mosbat", SP, "t", "e", "s", "t", SP, "manfi">>
ReplyTestOrNot   == <<"azmayesh", SP, "n", "e", "g", "a", "t", "i", "v", "e">>
ReplyNegative    == <<"manfi">>
ReplyQuestion    == <<"next_question">>

PregnancyOutcomes ==
    {[ok |-> TRUE, content |-> c] :
        c \in {ReplyAllWords, ReplyTestOrNot, ReplyNegative, ReplyQuestion}}
    \cup {[ok |-> FALSE, content |-> <<>>]}

\* the session after the interview: one submit_answer per question, one
\* instant apart, the last of them at the instant t + Len(interview)
RECURSIVE Interviewed(_, _, _, _)
Interviewed(s, interview, b, t) ==
    IF interview = <<>> \/ ~IsActive(s.status) THEN s
    ELSE Interviewed(
             SubmitResult(s, interview[1].key, interview[1].answer, b, t + 1).session,
             Tail(interview), b, t + 1)

ServiceInit ==
    \E interview \in Interviews, b \in BackendOutcomes :
        LET t0 == 0 - Len(interview) - 1
            s  == Interviewed(NewSession(StoredId, DefaultModel, b, t0), interview, b, t0)
        IN  /\ Holding(s)
            /\ disk = <<SessionDocument(s)>>
            /\ clock = 0
            /\ last_op = "save_to_file"
            /\ reply = Absent
            /\ error = "none"
            /\ backend_calls = 0
            /\ age_evaluated = FALSE
            /\ request = <<>>
            /\ pregnancy = <<>>
            /\ pregnancy_files = <<>>
            /\ truncated = FALSE

\* what an operation on the pregnancy session, or a route, reports
Reported(op, r, exc, calls) ==
    /\ last_op' = op
    /\ reply' = r
    /\ error' = exc
    /\ backend_calls' = calls
    /\ age_evaluated' = FALSE
    /\ request' = <<>>

\* variant: a request for a missing session still reaches the model
NotFoundAfterCall(op) ==
    /\ clock' = clock + 1
    /\ Reported(op, Absent, "NotFound", 1)
    /\ UNCHANGED <<session, disk, beyond>>

\* raise HTTPException(404, ...): the route ends before anything is loaded
NotFound(op) ==
    /\ clock' = clock + 1
    /\ Reported(op, Absent, "NotFound", 0)
    /\ UNCHANGED <<session, disk, beyond>>

\* os.path.exists for the file of an intake session
SessionFileExists(id) == id = StoredId /\ disk # <<>>

\* POST /gynecology/start: a new session is constructed and saved, whether or
\* not one is stored under the id already
StartGynecology ==
    /\ clock < MaxClock
    /\ \E b \in BackendOutcomes :
          LET s == NewSession(StoredId, DefaultModel, b, clock + 1)
          IN  /\ clock' = clock + 1
              /\ disk' = <<SessionDocument(s)>>
              /\ Reported("start_gynecology", Absent, "none", 1)
              /\ UNCHANGED <<session, beyond>>

\* POST /gynecology/{id}/message: load_from_file, submit_answer("free_text",
\* message), save_to_file
GynecologyMessage ==
    /\ clock < MaxClock
    /\ \E id \in SessionIds, message \in Messages, b \in BackendOutcomes :
          IF ~SessionFileExists(id) THEN NotFound("gynecology_message")
          ELSE LET now == clock + 1
                   r == FromDictResult(disk[1], b, now)
               IN  /\ clock' = now
                   /\ UNCHANGED <<session, beyond>>
                   /\ IF r.error # "none"
                      THEN /\ Reported("gynecology_message", Absent, r.error, r.backend_calls)
                           /\ UNCHANGED disk
                      ELSE IF ~IsActive(r.loaded[1].status)
                      THEN /\ Reported("gynecology_message", Absent, "ValueError",
                                       r.backend_calls)
                           /\ UNCHANGED disk
                      ELSE LET sub == SubmitResult(r.loaded[1], KeyFreeText, message, b, now)
                           IN  /\ disk' = <<SessionDocument(sub.session)>>
                               /\ last_op' = "gynecology_message"
                               /\ reply' = sub.reply
                               /\ error' = "none"
                               /\ backend_calls' = r.backend_calls + sub.backend_calls
                               /\ age_evaluated' = sub.age_evaluated
                               /\ request' = sub.request

\* PregnancySession.from_gynecology_session(path) on the stored session
\* file: json.load of a file that is still empty raises JSONDecodeError
FromGynecologySession ==
    /\ clock < MaxClock
    /\ disk # <<>> \/ truncated
    /\ clock' = clock + 1
    /\ IF truncated
       THEN /\ Reported("from_gynecology_session", Absent, "JSONDecodeError", 0)
            /\ UNCHANGED pregnancy
       ELSE /\ pregnancy' =
                   <<NewPregnancySession(PregnancySessionId(disk[1]), disk[1], clock + 1)>>
            /\ Reported("from_gynecology_session", Absent, "none", 0)
    /\ UNCHANGED <<session, disk, pregnancy_files, truncated>>

\* POST /gynecology/{id}/transfer: from_gynecology_session, save_to_file, and
\* then pregnancy_session.start(), a method PregnancySession does not have:
\* the call raises AttributeError after the report was written
TransferToPregnancy ==
    /\ clock < MaxClock
    /\ \E id \in SessionIds, b \in PregnancyOutcomes :
          IF ~SessionFileExists(id) THEN NotFound("transfer_to_pregnancy")
          ELSE LET now == clock + 1
                   p == NewPregnancySession(PregnancySessionId(disk[1]), disk[1], now)
                   saved == ReportResult(p, b)
               IN  /\ clock' = now
                   /\ StoreReport(p.session_id, saved.report)
                   /\ Reported("transfer_to_pregnancy", Absent, "AttributeError", 1)
                   /\ UNCHANGED <<session, pregnancy, truncated>>

\* POST /pregnancy/{id}/message: PregnancySession.load_from_file is not
\* defined, so the route raises AttributeError before it reads the report
PregnancyMessage ==
    /\ clock < MaxClock
    /\ \E id \in PregnancyIds, answer \in PregnancyAnswers :
          IF ~ReportExists(id) THEN NotFound("pregnancy_message")
          ELSE /\ clock' = clock + 1
               /\ Reported("pregnancy_message", Absent, "AttributeError", 0)
               /\ UNCHANGED <<session, disk, beyond>>

StartPregnancyConsultation ==
    /\ clock < MaxClock
    /\ pregnancy # <<>>
    /\ \E b \in PregnancyOutcomes :
          LET r == StartResult(pregnancy[1], b, clock + 1)
          IN  /\ clock' = clock + 1
              /\ pregnancy' = <<r.session>>
              /\ Reported("start_pregnancy_consultation", r.reply, "none", 1)
              /\ UNCHANGED <<session, disk, pregnancy_files, truncated>>

PregnancySubmitAnswer ==
    /\ clock < MaxClock
    /\ pregnancy # <<>>
    /\ \E answer \in PregnancyAnswers, b \in PregnancyOutcomes :
          LET r == PregnancySubmitResult(pregnancy[1], answer, b, clock + 1)
          IN  /\ clock' = clock + 1
              /\ pregnancy' = <<r.session>>
              /\ last_op' = "pregnancy_submit_answer"
              /\ reply' = r.reply
              /\ error' = "none"
              /\ backend_calls' = 1
              /\ age_evaluated' = FALSE
              /\ request' = r.request
              /\ UNCHANGED <<session, disk, pregnancy_files, truncated>>

\* PregnancySession.save_to_file(f"{session_id}.json")
PregnancySaveToFile ==
    /\ clock < MaxClock
    /\ pregnancy # <<>>
    /\ \E b \in PregnancyOutcomes :
          LET saved == ReportResult(pregnancy[1], b)
          IN  /\ clock' = clock + 1
              /\ pregnancy' = <<saved.session>>
              /\ StoreReport(pregnancy[1].session_id, saved.report)
              /\ Reported("pregnancy_save_to_file", Absent, "none", 1)
              /\ UNCHANGED <<session, truncated>>

ServiceNext ==
    \/ StartGynecology
    \/ GynecologyMessage
    \/ TransferToPregnancy
    \/ PregnancyMessage
    \/ FromGynecologySession
    \/ StartPregnancyConsultation
    \/ PregnancySubmitAnswer
    \/ PregnancySaveToFile

ServiceSpec == ServiceInit /\ [][ServiceNext]_vars

\* ------------------------------------------------ a save seen from outside
\* (gynecology_session.py, save_to_file)  The holder of the intake session
\* saves it while another process reads the session file for a transfer.
\* open(filepath, 'w') empties the file; the document is written afterwards.
WriterSubmit == ~truncated /\ SubmitAnswer

\* with open(filepath, 'w', ...) as f
OpenForWrite ==
    /\ clock < MaxClock
    /\ ~truncated
    /\ clock' = clock + 1
    /\ truncated' = TRUE
    /\ disk' = <<>>
    /\ Returned("open_for_write", 0)
    /\ UNCHANGED <<session, pregnancy, pregnancy_files>>

\* f.write(self.to_json()) and the end of the with block
WriteAndClose ==
    /\ clock < MaxClock
    /\ truncated
    /\ clock' = clock + 1
    /\ truncated' = FALSE
    /\ disk' = <<ToJson>>
    /\ Returned("save_to_file", 0)
    /\ UNCHANGED <<session, pregnancy, pregnancy_files>>

SaveNext ==
    \/ WriterSubmit
    \/ OpenForWrite
    \/ WriteAndClose
    \/ FromGynecologySession

SaveSpec == Init /\ [][SaveNext]_vars

\* ------------------------------------------------ the transfer script
\* (src/transfer_to_pregnancy.py)  Further keyword words, one character each:
\* "pariod", "test_e", "bardari", "sobh", "hassas", "bardar".
SUSPICION_KEYWORDS ==
    << <<"takhir", SP, "ghaedegi">>, <<"takhir", SP, "pariod">>,
       <<"test_e", SP, "bardari">>, <<"halat", SP, "tahavo">>,
       <<"estefragh", SP, "sobh">>, <<"pestan", SP, "hassas">>, <<"bardar">> >>

\* check_pregnancy_suspicion on a session or its stored document: the flag,
\* or a keyword in one of the answers
CheckPregnancySuspicion(gyn) ==
    \/ gyn.pregnancy_suspicion
    \/ \E i \in 1..Len(gyn.patient_answers) :
          AnyIn(SUSPICION_KEYWORDS, AnswerText(gyn.patient_answers[i]))

\* ------------------------------------------------- any caller-chosen key
\* submit_answer takes the question key as it comes: a caller may pass the
\* name of the flag entry as well as the keys the shipped callers use.
CallerKeys == QuestionKeys \cup {AGE_CHECKED}

SubmitAnyKey ==
    \E question_key \in CallerKeys, answer \in Texts :
        \/ SubmitRejected(question_key, answer)
        \/ \E b \in BackendOutcomes : SubmitAccepted(question_key, answer, b)

AnyKeySpec == Init /\ [][SubmitAnyKey]_vars

\* ----------------------------------------------------- auxiliary predicates
Terminal == {"SUSPENDED", "COMPLETED"}

\* the pregnancy rule evaluated over an answer store
RuleHolds(answers) ==
    /\ AnyIn(REQUIRED_SYMPTOMS, AnswersText(answers))
    /\ AnyIn(MONTH_WORDS, AnswersText(answers))

\* the record an accepted submit_answer stored at instant t
StoredAt(answers, t) ==
    answers[CHOOSE i \in 1..Len(answers) :
                answers[i].isdict /\ answers[i].timestamp = t]

\* the last operation was a submit_answer that returned
Submitted == last_op = "submit_answer" /\ error = "none"

\* a birth year that puts the patient below the minimum age
BelowMinimumAge(answer) ==
    /\ ParseInt(answer).ok
    /\ CurrentYear - ParseInt(answer).value < MIN_GYNECOLOGY_AGE

\* ------------------------------------------------------------------ claims

\* C1: submit_answer on a Suspended or Completed session raises the
\* invalid-state error for every key and text and leaves the answer store,
\* the log, pregnancy_suspicion and the status as they were.
C1_RejectedWithoutEffect ==
    [][ (status \in Terminal /\ last_op' = "submit_answer")
          => /\ error' = "ValueError"
             /\ UNCHANGED <<patient_answers, conversation_history,
                            pregnancy_suspicion, status>> ]_vars

C1_Witness ==
    /\ last_op = "submit_answer"
    /\ error = "ValueError"
    /\ status = "SUSPENDED"
    /\ patient_answers # <<>>

\* C2: when submit_answer returns, pregnancy_suspicion reflects the rule
\* evaluated over all stored answers, the one just stored included.
C2_SuspicionCoversStoredAnswer ==
    (Submitted /\ RuleHolds(patient_answers)) => pregnancy_suspicion

\* C3: once pregnancy_suspicion is true, no submit_answer, complete_session,
\* suspend_session or switch_model makes it false.
C3_SuspicionMonotonic ==
    [][ (pregnancy_suspicion /\ last_op' \in {"submit_answer", "complete_session",
                                              "suspend_session", "switch_model"})
          => pregnancy_suspicion' ]_vars

C3_Witness ==
    /\ Submitted
    /\ pregnancy_suspicion
    /\ ~RuleHolds(patient_answers)
    /\ Len(conversation_history) >= 3

\* C4: a first answer that is a birth year below the minimum age suspends the
\* session under whichever primary key it is submitted.
C4_FirstAnswerAgeChecked ==
    [][ (/\ patient_answers = <<>>
         /\ last_op' = "submit_answer"
         /\ error' = "none"
         /\ BelowMinimumAge(StoredAt(patient_answers', clock').answer))
          => status' = "SUSPENDED" ]_vars

\* C5: when the age rule is evaluated on an answer, the session becomes
\* Suspended iff the answer parses as an integer birth year and the current
\* year minus it is strictly below the minimum age; the call returns normally.
C5_AgeGateIffBelowMinimum ==
    (last_op = "submit_answer" /\ age_evaluated)
      => /\ error = "none"
         /\ status = "SUSPENDED"
              <=> BelowMinimumAge(StoredAt(patient_answers, clock).answer)

C5_Witness ==
    /\ last_op = "submit_answer"
    /\ age_evaluated
    /\ StoredAt(patient_answers, clock).answer = TextAdult
    /\ status = "ACTIVE"

\* C6: the age rule is evaluated at most once per session: an evaluation
\* happens only while the reserved flag is unset and sets it, and once the
\* flag is set no submit_answer suspends the session.
C6_AgeRuleAtMostOnce ==
    [][ /\ age_evaluated' => /\ ~HasKey(patient_answers, AGE_CHECKED)
                             /\ HasKey(patient_answers', AGE_CHECKED)
        /\ (HasKey(patient_answers, AGE_CHECKED) /\ last_op' = "submit_answer")
             => status' = status ]_vars

C6_Witness ==
    /\ Submitted
    /\ ~age_evaluated
    /\ HasKey(patient_answers, AGE_CHECKED)
    /\ StoredAt(patient_answers, clock).key = KeyQ1
    /\ StoredAt(patient_answers, clock).answer = TextMinor
    /\ status = "ACTIVE"

\* C7: when the age gate fires, the answer is stored, exactly one turn is
\* appended (the warning, assistant role), the patient's text is not
\* appended, the backend is not contacted and the reply is the warning.
C7_AgeGateShortCircuits ==
    [][ (last_op' = "submit_answer" /\ age_evaluated' /\ status' = "SUSPENDED")
          => /\ \E i \in 1..Len(patient_answers') :
                   /\ patient_answers'[i].isdict
                   /\ patient_answers'[i].timestamp = clock'
             /\ conversation_history' =
                   Append(conversation_history,
                          [role |-> "assistant", content |-> AGE_WARNING,
                           timestamp |-> clock'])
             /\ backend_calls' = 0
             /\ reply' = [present |-> TRUE, text |-> AGE_WARNING] ]_vars

C7_Witness ==
    /\ Submitted
    /\ age_evaluated
    /\ status = "SUSPENDED"
    /\ reply.present
    /\ conversation_history # <<>>

\* C8: once the status is Suspended or Completed, no submit_answer,
\* complete_session or suspend_session changes it.
C8_TerminalStatesStay ==
    [][ (status \in Terminal /\ last_op' \in {"submit_answer", "complete_session",
                                              "suspend_session"})
          => status' = status ]_vars

\* C9: loading the saved record gives a session equal to the saved one: id,
\* status, pregnancy_suspicion, timestamps, answers and turns in order.
C9_SaveLoadRoundTrip ==
    (last_op = "load_from_file" /\ error = "none")
      => /\ session_id = disk[1].session_id
         /\ StatusValue(status) = disk[1].status
         /\ pregnancy_suspicion = disk[1].pregnancy_suspicion
         /\ created_at = disk[1].created_at
         /\ updated_at = disk[1].updated_at
         /\ patient_answers = disk[1].patient_answers
         /\ conversation_history = disk[1].conversation_history

\* C10: loading a record whose status names no recognized state raises an
\* error and yields no session.
C10_UnknownStatusRejected ==
    [][ last_op' = "from_dict"
          => /\ error' = "ValueError"
             /\ ~reply'.present
             /\ UNCHANGED session ]_vars

C10_Witness ==
    /\ last_op = "from_dict"
    /\ error = "ValueError"
    /\ disk # <<>>

\* C11: loading a record that lacks an optional key succeeds.
C11_MissingOptionalFieldTolerated ==
    last_op = "load_partial" => error = "none"

\* C12: the target of a transfer is named "pregnancy_" followed by the source
\* id, so transferring the same source again gives the same id and writes the
\* same stored report: no second report appears.
C12_TransferTargetId ==
    /\ pregnancy # <<>> =>
          /\ pregnancy[1].metadata.source_session_id = <<"patient_1">>
          /\ pregnancy[1].session_id = <<"pregnancy_", "patient_1">>
    /\ DOMAIN pregnancy_files \subseteq {<<"pregnancy_", "patient_1">>}
    /\ \A n \in DOMAIN pregnancy_files : pregnancy_files[n].session_id = n

\* the source was transferred at instant 1 and saved, and transferred again
\* at instant 2
C12_Witness ==
    /\ pregnancy # <<>>
    /\ <<"pregnancy_", "patient_1">> \in DOMAIN pregnancy_files
    /\ pregnancy_files[<<"pregnancy_", "patient_1">>].created_at = 1
    /\ pregnancy[1].created_at = 2
    /\ pregnancy[1].session_id = <<"pregnancy_", "patient_1">>

\* C13: right after a transfer, symptoms lists, in the order of the source's
\* answer store and with repetitions, the full text of every answer that
\* holds a symptom word; lmp is the text of the (last) answer whose key is
\* the LMP key or whose text holds the menstruation word, and is absent when
\* there is none; the age-check flag entry contributes to neither.
C13_TransferExtraction ==
    (last_op \in {"from_gynecology_session", "transfer_to_pregnancy"} /\ error # "NotFound")
    => LET src  == disk[1].patient_answers
           data == IF last_op = "transfer_to_pregnancy"
                   THEN pregnancy_files[<<"pregnancy_", "patient_1">>].pregnancy_data
                   ELSE pregnancy[1].pregnancy_data
           symptom_words == {"tahavo", "halat", "pestan", "khastegi", "takhir"}
           hit(i) == /\ src[i].isdict
                     /\ \E j \in 1..Len(src[i].answer) : src[i].answer[j] \in symptom_words
           idx == {i \in 1..Len(src) : hit(i)}
           rank(i) == Cardinality({j \in idx : j <= i})
           marked(i) == /\ src[i].isdict
                        /\ \/ src[i].key = <<"l", "m", "p">>
                           \/ \E j \in 1..Len(src[i].answer) : src[i].answer[j] = "ghaedegi"
       IN  /\ Len(data.symptoms) = Cardinality(idx)
           /\ \A i \in idx : data.symptoms[rank(i)] = src[i].answer
           /\ (\A i \in 1..Len(src) : ~marked(i)) => ~data.lmp.present
           /\ \A i \in 1..Len(src) :
                 (marked(i) /\ \A j \in (i + 1)..Len(src) : ~marked(j))
                 => data.lmp = Some(src[i].answer)

\* a source with one answer under the LMP key, two symptom answers and the
\* flag entry has been transferred
C13_Witness ==
    /\ last_op = "from_gynecology_session"
    /\ HasKey(disk[1].patient_answers, AGE_CHECKED)
    /\ Len(disk[1].patient_answers) = 4
    /\ Len(pregnancy[1].pregnancy_data.symptoms) = 2
    /\ pregnancy[1].pregnancy_data.symptoms[1] # pregnancy[1].pregnancy_data.symptoms[2]
    /\ pregnancy[1].pregnancy_data.lmp = Some(TextPlain)

\* C14: submit_answer on the pregnancy session sets the status from the
\* model's reply: a confirmation word gives CONFIRMED whatever else the reply
\* holds, otherwise a testing word gives NEEDS_TESTING, otherwise a negation
\* word gives RULED_OUT, and a reply with none of them, or no reply, leaves
\* the status as it was, from whichever status the session was in.
C14_ReplyClassification ==
    [][ last_op' = "pregnancy_submit_answer"
        => LET text == reply'.text
               holds(atoms, word) ==
                   \/ \E j \in 1..Len(text) : text[j] \in atoms
                   \/ Contains(text, word)
               confirmation == holds({"taeid", "mosbat"},
                                     <<"c", "o", "n", "f", "i", "r", "m", "e", "d">>)
               testing      == holds({"azmayesh", "beta"}, <<"t", "e", "s", "t">>)
               negation     == holds({"manfi", "rad"},
                                     <<"n", "e", "g", "a", "t", "i", "v", "e">>)
           IN  pregnancy'[1].status =
                   IF reply'.present /\ confirmation THEN "CONFIRMED"
                   ELSE IF reply'.present /\ testing THEN "NEEDS_TESTING"
                   ELSE IF reply'.present /\ negation THEN "RULED_OUT"
                   ELSE pregnancy[1].status ]_vars

\* a session that a reply had confirmed has been ruled out by a later reply
C14_Witness ==
    /\ last_op = "pregnancy_submit_answer"
    /\ pregnancy[1].status = "RULED_OUT"
    /\ reply = Some(ReplyNegative)
    /\ \E i \in 1..Len(pregnancy[1].conversation_history) :
          /\ pregnancy[1].conversation_history[i].role = "assistant"
          /\ pregnancy[1].conversation_history[i].content = ReplyAllWords
          /\ pregnancy[1].conversation_history[i].timestamp < clock

\* C15: starting the consultation of a pregnancy session whose log already
\* holds turns appends nothing and sends no request to the model.
C15_StartIdempotent ==
    [][ (last_op' = "start_pregnancy_consultation"
         /\ pregnancy[1].conversation_history # <<>>)
        => /\ pregnancy'[1].conversation_history = pregnancy[1].conversation_history
           /\ backend_calls' = 0 ]_vars

\* C16: the stored intake session and the pregnancy session both have
\* updated_at >= created_at; an operation that changes either of them never
\* lowers its updated_at and keeps its created_at, for the intake session
\* through the load and the save of the message route as well.
C16_TimestampsOrdered ==
    [][ /\ disk' # <<>> => disk'[1].updated_at >= disk'[1].created_at
        /\ pregnancy' # <<>> => pregnancy'[1].updated_at >= pregnancy'[1].created_at
        /\ last_op' = "gynecology_message"
           => /\ disk'[1].created_at = disk[1].created_at
              /\ disk'[1].updated_at >= disk[1].updated_at
        /\ last_op' \in {"start_pregnancy_consultation", "pregnancy_submit_answer",
                         "pregnancy_save_to_file"}
           => /\ pregnancy'[1].created_at = pregnancy[1].created_at
              /\ pregnancy'[1].updated_at >= pregnancy[1].updated_at ]_vars

\* a stored intake session created before the service started has a later
\* update, and a pregnancy session has been updated after its creation
C16_Witness ==
    /\ last_op = "pregnancy_submit_answer"
    /\ pregnancy[1].updated_at > pregnancy[1].created_at
    /\ disk[1].updated_at > 0
    /\ disk[1].created_at < 0

\* C17: a route called for a stored session returns normally with every
\* change it made already in the stored record: the answer and the patient
\* turn of the intake message, the first question of the transfer, the patient
\* turn of the pregnancy message.
C17_ChangesPersistedOnReturn ==
    LET target == <<"pregnancy_", "patient_1">>
        HasTurnNow(log, role) ==
            \E i \in 1..Len(log) : log[i].role = role /\ log[i].timestamp = clock
    IN  /\ (last_op = "gynecology_message" /\ error = "none")
           => /\ \E i \in 1..Len(disk[1].patient_answers) :
                     /\ disk[1].patient_answers[i].isdict
                     /\ disk[1].patient_answers[i].timestamp = clock
              /\ HasTurnNow(disk[1].conversation_history, "user")
        /\ (last_op = "transfer_to_pregnancy" /\ error # "NotFound")
           => /\ error = "none"
              /\ Truthy(reply)
                    => HasTurnNow(pregnancy_files[target].conversation_history, "assistant")
        /\ (last_op = "pregnancy_message" /\ error # "NotFound")
           => /\ error = "none"
              /\ HasTurnNow(pregnancy_files[target].conversation_history, "user")

\* C18: a process that reads the session file while it is being saved finds
\* a whole document, the previous one or the new one, never an empty file.
C18_ReaderSeesWholeRecord ==
    last_op = "from_gynecology_session" => error # "JSONDecodeError"

C20_BackendFailureHarmless ==
    [][ LET failed == [ok |-> FALSE, content |-> <<>>]
            now == clock + 1
            NoAssistantTurnAt(log, t) ==
                \A i \in 1..Len(log) : ~(log[i].role = "assistant" /\ log[i].timestamp = t)
            PatientTurnAt(log, t, text) ==
                \E i \in 1..Len(log) :
                    log[i].role = "user" /\ log[i].timestamp = t /\ log[i].content = text
            created == NewSession(StoredId, DefaultModel, failed, now)
        IN  /\ created.status = "ACTIVE" /\ created.conversation_history = <<>>
            /\ last_op' = "start_gynecology"
               => error' = "none" /\ disk'[1].status = "active"
            /\ \A message \in Messages :
                  LET loaded == FromDictResult(disk[1], failed, now).loaded[1]
                      sub == SubmitResult(loaded, KeyFreeText, message, failed, now)
                  IN  IsActive(loaded.status)
                      => /\ sub.reply = Absent
                         /\ IsActive(sub.session.status)
                         /\ NoAssistantTurnAt(sub.session.conversation_history, now)
                         /\ PatientTurnAt(sub.session.conversation_history, now, message)
            /\ (last_op' = "gynecology_message" /\ error' # "NotFound")
               => /\ error' = "none"
                  /\ disk'[1].status = disk[1].status
                  /\ \E i \in 1..Len(disk'[1].patient_answers) :
                        /\ disk'[1].patient_answers[i].isdict
                        /\ disk'[1].patient_answers[i].timestamp = now
                  /\ \E i \in 1..Len(disk'[1].conversation_history) :
                        /\ disk'[1].conversation_history[i].role = "user"
                        /\ disk'[1].conversation_history[i].timestamp = now
            /\ (last_op' = "pregnancy_submit_answer" /\ ~reply'.present)
               => /\ error' = "none"
                  /\ pregnancy'[1].status = pregnancy[1].status
                  /\ Len(pregnancy'[1].conversation_history)
                        = Len(pregnancy[1].conversation_history) + 1
                  /\ SubSeq(pregnancy'[1].conversation_history, 1,
                            Len(pregnancy[1].conversation_history))
                        = pregnancy[1].conversation_history
                  /\ pregnancy'[1].conversation_history[
                         Len(pregnancy'[1].conversation_history)].role = "user" ]_vars

\* the model was unreachable during a submit_answer on a confirmed pregnancy
\* session
C20_Witness ==
    /\ last_op = "pregnancy_submit_answer"
    /\ reply = Absent
    /\ pregnancy[1].status = "CONFIRMED"
    /\ pregnancy[1].conversation_history[Len(pregnancy[1].conversation_history)].role = "user"
    /\ pregnancy[1].conversation_history[Len(pregnancy[1].conversation_history)].timestamp
          = clock

\* C21: when the backend answers an accepted submit_answer, on which the age
\* gate does not fire, with the non-empty text t, the log gains the patient's
\* text and then t as an assistant turn, t is returned and is the current
\* question afterwards; a session created while the backend answers t has t
\* as its current question.
C21_BackendTextBecomesQuestion ==
    LET answered == [ok |-> TRUE, content |-> <<"next_question">>]
        now == clock + 1
    IN  /\ GetCurrentQuestion(
               NewSession(<<"patient_1">>, DefaultModel, answered, now).conversation_history)
              = Some(answered.content)
        /\ IsActive(status)
           => \A question_key \in QuestionKeys, answer \in Texts :
                 LET r == SubmitResult(Current, question_key, answer, answered, now)
                     log == r.session.conversation_history
                 IN  IsActive(r.session.status)
                     => /\ r.reply = Some(answered.content)
                        /\ GetCurrentQuestion(log) = Some(answered.content)
                        /\ Len(log) = Len(conversation_history) + 2
                        /\ log[Len(log) - 1].role = "user"
                        /\ log[Len(log) - 1].content = answer

\* C22: the log of the stored intake session only grows: after a message
\* route has loaded, changed and saved the session, the log stored before is
\* a prefix of the log stored now.
C22_LogAppendOnly ==
    [][ (last_op' = "gynecology_message" /\ error' = "none")
        => /\ Len(disk'[1].conversation_history) >= Len(disk[1].conversation_history)
           /\ SubSeq(disk'[1].conversation_history, 1, Len(disk[1].conversation_history))
                 = disk[1].conversation_history ]_vars

\* C23: get_current_question returns the content of the last assistant turn
\* of the log, and nothing when the log has no assistant turn; so a session
\* whose log is empty has no current question, and once the age gate has
\* fired the current question is the age-referral warning.
C23_CurrentQuestionIsLastAssistantTurn ==
    last_op = "get_current_question"
    => LET log == conversation_history
           assistants == {i \in 1..Len(log) : log[i].role = "assistant"}
       IN  /\ assistants = {} => reply = Absent
           /\ \A i \in assistants :
                 (\A j \in assistants : j <= i) => reply = Some(log[i].content)
           /\ (log # <<>> /\ log[Len(log)].content = <<"age_referral_warning">>)
                 => reply = Some(<<"age_referral_warning">>)

\* the question was asked after the age gate had fired
C23_Witness ==
    /\ last_op = "get_current_question"
    /\ status = "SUSPENDED"
    /\ reply = Some(AGE_WARNING)

\* C24: the session from_gynecology_session returns is SUSPECTED, names the
\* source session in its metadata, and has a log of exactly one turn, of
\* role system, whose content is the header followed by one line for each of
\* the first 10 patient turns with a non-empty text of the source log, in
\* their order, each text cut to its first 100 characters.
C24_TransferTargetShape ==
    (last_op = "from_gynecology_session" /\ error = "none")
    => LET p   == pregnancy[1]
           src == disk[1].conversation_history
           idx == {i \in 1..Len(src) : src[i].role = "user" /\ src[i].content # <<>>}
           rank(i) == Cardinality({j \in idx : j <= i})
           kept == {i \in idx : rank(i) <= 10}
           nth(k) == CHOOSE i \in kept : rank(i) = k
           cut(text) == IF Len(text) <= 100 THEN text ELSE SubSeq(text, 1, 100)
           lines == [k \in 1..Cardinality(kept) |->
                        <<"- patient: ">> \o cut(src[nth(k)].content)]
       IN  /\ p.status = "SUSPECTED"
           /\ p.metadata.source_session_id = disk[1].session_id
           /\ p.metadata.transferred_from = "gynecology_session"
           /\ Len(p.conversation_history) = 1
           /\ p.conversation_history[1].role = "system"
           /\ p.conversation_history[1].content
                 = <<"gynecology_summary:", "\n">> \o JoinLines(lines)

\* a source with eleven patient turns has been transferred: the summary has
\* ten lines
C24_Witness ==
    /\ last_op = "from_gynecology_session"
    /\ error = "none"
    /\ Len(SelectSeq(disk[1].conversation_history, IsPatientTurn)) = 11
    /\ Len(pregnancy[1].conversation_history) = 1
    /\ Len(SelectSeq(pregnancy[1].conversation_history[1].content,
                     LAMBDA c : c = "- patient: ")) = 10

\* C25: a transfer leaves the stored intake session where it is and as it
\* is: the session file exists afterwards and holds the same document.
C25_TransferKeepsSource ==
    [][ (last_op' \in {"transfer_to_pregnancy", "from_gynecology_session"}
         /\ error' # "NotFound")
        => /\ disk' # <<>>
           /\ disk' = disk ]_vars

\* the route has written the report of a source that holds answers, and the
\* source is still stored
C25_Witness ==
    /\ last_op = "transfer_to_pregnancy"
    /\ <<"pregnancy_", "patient_1">> \in DOMAIN pregnancy_files
    /\ disk # <<>>
    /\ disk[1].session_id = <<"patient_1">>
    /\ Len(disk[1].patient_answers) = 4

\* C26: with one caller at a time no submitted answer is lost: after a
\* message route has returned, every answer the stored session held before
\* is still in its answer store with its text, and every patient turn it
\* held before is still in its log.
C26_SequentialSubmitsKeepAnswers ==
    [][ (last_op' = "gynecology_message" /\ error' = "none")
        => /\ \A i \in 1..Len(disk[1].patient_answers) :
                 disk[1].patient_answers[i].isdict
                 => \E j \in 1..Len(disk'[1].patient_answers) :
                       /\ disk'[1].patient_answers[j].isdict
                       /\ disk'[1].patient_answers[j].answer
                             = disk[1].patient_answers[i].answer
                       /\ disk'[1].patient_answers[j].timestamp
                             = disk[1].patient_answers[i].timestamp
           /\ \A i \in 1..Len(disk[1].conversation_history) :
                 disk[1].conversation_history[i].role = "user"
                 => \E j \in 1..Len(disk'[1].conversation_history) :
                       disk'[1].conversation_history[j] = disk[1].conversation_history[i]
      ]_vars

C28_FlagEntryOnlyFromAgeRule ==
    [][ /\ (HasKey(patient_answers', AGE_CHECKED) /\ ~HasKey(patient_answers, AGE_CHECKED))
           => age_evaluated'
        /\ \A i \in 1..Len(patient_answers') :
              patient_answers'[i].key = AGE_CHECKED => ~patient_answers'[i].isdict ]_vars

\* C29: a transfer produces a pregnancy session only from a stored intake
\* session that is active and passes the suspicion check.
C29_TransferOnlyWhenSuspected ==
    (last_op \in {"transfer_to_pregnancy", "from_gynecology_session"}
     /\ error \notin {"NotFound", "JSONDecodeError"})
    => /\ CheckPregnancySuspicion(disk[1])
       /\ disk[1].status = "active"

\* C30: saving a pregnancy session only serialises it: no request goes to the
\* backend, the session is unchanged, and the status written is the status the
\* session had before the save.
C30_SaveIsPureSerialization ==
    [][ last_op' = "pregnancy_save_to_file"
        => /\ backend_calls' = 0
           /\ pregnancy' = pregnancy
           /\ pregnancy_files'[pregnancy[1].session_id].status
                 = PregnancyStatusValue(pregnancy[1].status) ]_vars

\* the turns of a log as a request carries them: role and content
RoleAndContent(history) ==
    [i \in 1..Len(history) |->
        [role |-> history[i].role, content |-> history[i].content]]

\* the requests that carry the log once and in order: possibly after the
\* system prompt, possibly before the instruction to ask the next question
CarryingOnce(log) ==
    { pre \o RoleAndContent(log) \o post :
        pre \in {<<>>, <<[role |-> "system", content |-> PREGNANCY_SYSTEM_PROMPT]>>},
        post \in {<<>>, <<[role |-> "user", content |-> NEXT_QUESTION_REQUEST]>>} }

\* C31: the request a submit_answer sends, intake or pregnancy, carries the
\* prior log in order followed by the patient's new turn, each turn once
\* (by role and content, whatever else a message holds).
C31_RequestCarriesLogOnce ==
    [][ /\ (last_op' = "submit_answer" /\ request' # <<>>)
           => RoleAndContent(request') \in CarryingOnce(
                  SubSeq(conversation_history', 1, Len(conversation_history) + 1))
        /\ last_op' = "pregnancy_submit_answer"
           => RoleAndContent(request') \in CarryingOnce(
                  SubSeq(pregnancy'[1].conversation_history, 1,
                         Len(pregnancy[1].conversation_history) + 1)) ]_vars

\* the answer records of an answer store, its flag entry left out
AnswerRecords(answers) == {i \in 1..Len(answers) : answers[i].isdict}

\* C32: every accepted message route leaves one more answer record in the
\* stored session's answer store than it held before.
C32_EachMessageAddsARecord ==
    [][ (last_op' = "gynecology_message" /\ error' = "none")
        => Cardinality(AnswerRecords(disk'[1].patient_answers))
              = Cardinality(AnswerRecords(disk[1].patient_answers)) + 1 ]_vars

====
